---- MODULE Spec2Model ----
(***************************************************************************)
(* Model of the CattoPic metadata layer: MetadataService                   *)
(* (worker/src/services/metadata.ts) over the D1 schema (images, tags,     *)
(* image_tags).  Every SQL statement the service prepares is an operator   *)
(* on a database value; db.batch is a transaction that runs its statements *)
(* in order and rolls back on the first failure.  The upload handlers      *)
(* (worker/src/handlers/upload.ts) write blobs to the R2 bucket and then   *)
(* save the record through the service.                                    *)
(***************************************************************************)
EXTENDS Integers, Sequences, FiniteSets, TLC

VARIABLES images, tags, image_tags, seq, last, procs, bucket

vars == <<images, tags, image_tags, seq, last, procs, bucket>>

(* ------------------------------ bounds -------------------------------- *)

\* longest tag list a caller passes (metadata.tags, updates.tags, addTags, ...)
MaxLen == 2
\* cap on the AUTOINCREMENT counter of tags.id
MaxTagId == 3

(* --------------------------- value domains ---------------------------- *)

ImageIds == {"i1", "i2"}
TagNames == {"a", "b"}
\* the tag administration calls also know a name no image record carries
AdminNames == TagNames \cup {"c"}
Orientations == {"landscape", "portrait"}

\* SQL NULL and JavaScript undefined
NULL == "NULL"
UNDEF == "undefined"

Expiry1 == "2026-01-01T00:00:00.000Z"

\* JavaScript truthiness of a string-or-absent value
Falsy(v) == v \in {UNDEF, NULL, ""}

\* v || null, v || undefined, v || ''
OrNull(v) == IF Falsy(v) THEN NULL ELSE v
OrUndefined(v) == IF Falsy(v) THEN UNDEF ELSE v
OrEmpty(v) == IF Falsy(v) THEN "" ELSE v

Range(s) == {s[i] : i \in 1..Len(s)}

SeqsUpTo(S, n) == UNION {[1..k -> S] : k \in 0..n}

TagLists == SeqsUpTo(TagNames, MaxLen)

RECURSIVE SetToSeq(_)
SetToSeq(S) ==
  IF S = {} THEN <<>>
  ELSE LET x == CHOOSE y \in S : TRUE IN <<x>> \o SetToSeq(S \ {x})

\* new Set(list) iterated in insertion order
RECURSIVE Dedup(_)
Dedup(s) ==
  IF s = <<>> THEN <<>>
  ELSE LET init == Dedup(SubSeq(s, 1, Len(s) - 1))
           x == s[Len(s)]
       IN IF x \in Range(init) THEN init ELSE Append(init, x)

(* ------------------------- sample image records ----------------------- *)

\* a still image with both compressed variants, and an animated one without
BaseRecords ==
  { [originalName |-> "cat.jpg", uploadTime |-> "2025-01-01T00:00:00.000Z",
     orientation |-> "landscape", format |-> "jpeg", width |-> 800, height |-> 600,
     paths |-> [original |-> "original/landscape/x.jpeg",
                webp |-> "landscape/webp/x.webp", avif |-> "landscape/avif/x.avif"],
     sizes |-> [original |-> 300, webp |-> 200, avif |-> 100]],
    [originalName |-> "anim.gif", uploadTime |-> "2025-02-02T00:00:00.000Z",
     orientation |-> "portrait", format |-> "gif", width |-> 480, height |-> 640,
     paths |-> [original |-> "original/portrait/x.gif", webp |-> "", avif |-> ""],
     sizes |-> [original |-> 50, webp |-> 0, avif |-> 0]] }

Metadata(b, id, expiry, tagList) ==
  [id |-> id, originalName |-> b.originalName, uploadTime |-> b.uploadTime,
   expiryTime |-> expiry, orientation |-> b.orientation, tags |-> tagList,
   format |-> b.format, width |-> b.width, height |-> b.height,
   paths |-> b.paths, sizes |-> b.sizes]

\* the still image never expires, the animated one does
ExpiryOf(b) == IF b.format = "gif" THEN Expiry1 ELSE UNDEF

InputRecords ==
  { Metadata(b, id, ExpiryOf(b), tl) : b \in BaseRecords, id \in ImageIds, tl \in TagLists }

(* ------------------------------ database ------------------------------ *)

DB == [images |-> images, tags |-> tags, image_tags |-> image_tags, seq |-> seq]

Ok(d, n) == [ok |-> TRUE, db |-> d, changes |-> n]
Fail(d) == [ok |-> FALSE, db |-> d, changes |-> 0]

\* the column values saveImage binds to its INSERT INTO images
BindImageRow(m) ==
  [id |-> m.id, original_name |-> m.originalName, upload_time |-> m.uploadTime,
   expiry_time |-> OrNull(m.expiryTime), orientation |-> m.orientation,
   format |-> m.format, width |-> m.width, height |-> m.height,
   path_original |-> m.paths.original,
   path_webp |-> OrNull(m.paths.webp), path_avif |-> OrNull(m.paths.avif),
   size_original |-> m.sizes.original, size_webp |-> m.sizes.webp,
   size_avif |-> m.sizes.avif]

rowToMetadata(row, tagSet) ==
  [id |-> row.id, originalName |-> row.original_name, uploadTime |-> row.upload_time,
   expiryTime |-> OrUndefined(row.expiry_time), orientation |-> row.orientation,
   tags |-> tagSet,
   format |-> row.format, width |-> row.width, height |-> row.height,
   paths |-> [original |-> row.path_original, webp |-> OrEmpty(row.path_webp),
              avif |-> OrEmpty(row.path_avif)],
   sizes |-> [original |-> row.size_original, webp |-> row.size_webp,
              avif |-> row.size_avif]]

\* InsertImage without the primary key on images.id
InsertImageNoKey(d, row) ==
  IF row.orientation \notin Orientations
  THEN Fail(d)
  ELSE Ok([d EXCEPT !.images = @ \cup {row}], 1)

\* INSERT INTO images (...) VALUES (...): PRIMARY KEY(id), CHECK(orientation)
InsertImage(d, row) ==
  IF (\E r \in d.images : r.id = row.id) \/ row.orientation \notin Orientations
  THEN Fail(d)
  ELSE Ok([d EXCEPT !.images = @ \cup {row}], 1)

\* INSERT INTO tags (name) VALUES (?) without OR IGNORE
InsertTagNoIgnore(d, name) ==
  IF \E t \in d.tags : t.name = name
  THEN Fail(d)
  ELSE Ok([d EXCEPT !.tags = @ \cup {[id |-> d.seq + 1, name |-> name]},
                    !.seq = @ + 1], 1)

\* INSERT OR IGNORE INTO tags (name) VALUES (?): UNIQUE(name), AUTOINCREMENT id
InsertOrIgnoreTag(d, name) ==
  IF \E t \in d.tags : t.name = name
  THEN Ok(d, 0)
  ELSE Ok([d EXCEPT !.tags = @ \cup {[id |-> d.seq + 1, name |-> name]},
                    !.seq = @ + 1], 1)

\* SELECT ?, id FROM tags WHERE name = ?
SelectLinkRows(d, imageId, name) ==
  {[image_id |-> imageId, tag_id |-> t.id] : t \in {u \in d.tags : u.name = name}}

\* FOREIGN KEY (image_id) REFERENCES images(id), (tag_id) REFERENCES tags(id)
ForeignKeysOk(d, rows) ==
  \A r \in rows : /\ \E i \in d.images : i.id = r.image_id
                  /\ \E t \in d.tags : t.id = r.tag_id

\* INSERT INTO image_tags (image_id, tag_id) SELECT ...: PRIMARY KEY(image_id, tag_id)
InsertImageTag(d, imageId, name) ==
  LET rows == SelectLinkRows(d, imageId, name) IN
  IF rows \cap d.image_tags # {} \/ ~ForeignKeysOk(d, rows)
  THEN Fail(d)
  ELSE Ok([d EXCEPT !.image_tags = @ \cup rows], Cardinality(rows))

\* INSERT OR IGNORE INTO image_tags ...: a key conflict skips the row, a
\* foreign-key violation still aborts
InsertOrIgnoreImageTag(d, imageId, name) ==
  LET rows == SelectLinkRows(d, imageId, name) \ d.image_tags IN
  IF ~ForeignKeysOk(d, rows)
  THEN Fail(d)
  ELSE Ok([d EXCEPT !.image_tags = @ \cup rows], Cardinality(rows))

\* DELETE FROM image_tags WHERE image_id = ? AND tag_id = (SELECT id FROM tags WHERE name = ?)
DeleteImageTag(d, imageId, name) ==
  LET gone == {r \in d.image_tags :
                 r.image_id = imageId /\ \E t \in d.tags : t.name = name /\ t.id = r.tag_id}
  IN Ok([d EXCEPT !.image_tags = @ \ gone], Cardinality(gone))

\* UPDATE images SET expiry_time = ? WHERE id = ?
\* an UPDATE that binds the value to upload_time instead of expiry_time
UpdateExpiryWrongColumn(d, id, value) ==
  Ok([d EXCEPT !.images = {IF r.id = id THEN [r EXCEPT !.upload_time = value] ELSE r :
                             r \in d.images}],
     Cardinality({r \in d.images : r.id = id}))

UpdateExpiry(d, id, value) ==
  LET hit == {r \in d.images : r.id = id} IN
  Ok([d EXCEPT !.images = (@ \ hit) \cup {[r EXCEPT !.expiry_time = value] : r \in hit}],
     Cardinality(hit))

\* DeleteImageRow without the cascade to image_tags
DeleteImageRowNoCascade(d, id) ==
  LET hit == {r \in d.images : r.id = id} IN
  Ok([d EXCEPT !.images = @ \ hit], Cardinality(hit))

\* DELETE FROM images WHERE id = ?, with ON DELETE CASCADE on image_tags.image_id
DeleteImageRow(d, id) ==
  LET hit == {r \in d.images : r.id = id} IN
  Ok([d EXCEPT !.images = @ \ hit,
               !.image_tags = {r \in @ : r.image_id # id}],
     Cardinality(hit))

\* DeleteTagRow without the cascade to image_tags
DeleteTagRowNoCascade(d, name) ==
  LET hit == {t \in d.tags : t.name = name} IN
  Ok([d EXCEPT !.tags = @ \ hit], Cardinality(hit))

\* DELETE FROM tags WHERE name = ?, with ON DELETE CASCADE on image_tags.tag_id
DeleteTagRow(d, name) ==
  LET hit == {t \in d.tags : t.name = name} IN
  Ok([d EXCEPT !.tags = @ \ hit,
               !.image_tags = {r \in @ : \A t \in hit : t.id # r.tag_id}],
     Cardinality(hit))

\* UpdateTagName without the unique index on tags.name
UpdateTagNameNoUnique(d, newName, oldName) ==
  LET hit == {t \in d.tags : t.name = oldName} IN
  Ok([d EXCEPT !.tags = (@ \ hit) \cup {[t EXCEPT !.name = newName] : t \in hit}],
     Cardinality(hit))

\* UPDATE tags SET name = ? WHERE name = ?: UNIQUE(name)
UpdateTagName(d, newName, oldName) ==
  LET hit == {t \in d.tags : t.name = oldName} IN
  IF hit = {} \/ newName = oldName THEN Ok(d, Cardinality(hit))
  ELSE IF \E t \in d.tags : t.name = newName THEN Fail(d)
  ELSE Ok([d EXCEPT !.tags = (@ \ hit) \cup {[t EXCEPT !.name = newName] : t \in hit}],
          Cardinality(hit))

Exec(d, s) ==
  CASE s.kind = "InsertImage" -> InsertImage(d, s.row)
    [] s.kind = "InsertOrIgnoreTag" -> InsertOrIgnoreTag(d, s.name)
    [] s.kind = "InsertImageTag" -> InsertImageTag(d, s.id, s.name)
    [] s.kind = "InsertOrIgnoreImageTag" -> InsertOrIgnoreImageTag(d, s.id, s.name)
    [] s.kind = "DeleteImageTag" -> DeleteImageTag(d, s.id, s.name)
    [] s.kind = "UpdateExpiry" -> UpdateExpiry(d, s.id, s.value)

\* a batch that keeps the statements that ran before the failing one
RECURSIVE RunBatchNoRollback(_, _, _)
RunBatchNoRollback(d0, d, stmts) ==
  IF stmts = <<>> THEN Ok(d, 0)
  ELSE LET r == Exec(d, Head(stmts)) IN
       IF r.ok THEN RunBatchNoRollback(d0, r.db, Tail(stmts)) ELSE Fail(d)

\* db.batch(statements): one transaction, rolled back when a statement fails
RECURSIVE RunBatch(_, _, _)
RunBatch(d0, d, stmts) ==
  IF stmts = <<>> THEN Ok(d, 0)
  ELSE LET r == Exec(d, Head(stmts)) IN
       IF r.ok THEN RunBatch(d0, r.db, Tail(stmts)) ELSE Fail(d0)

Batch(d, stmts) == RunBatch(d, d, stmts)

(* ----------------------- MetadataService methods ---------------------- *)

Null == [null |-> TRUE]

TagNamesOf(d, id) ==
  {t.name : t \in {u \in d.tags :
                     \E r \in d.image_tags : r.tag_id = u.id /\ r.image_id = id}}

\* SELECT * FROM images WHERE id = ?, then the names of its tags (joined)
getImage(d, id) ==
  LET hit == {r \in d.images : r.id = id} IN
  IF hit = {} THEN Null
  ELSE rowToMetadata(CHOOSE r \in hit : TRUE, TagNamesOf(d, id))

RECURSIVE EnsureAndLink(_, _)
EnsureAndLink(id, tagList) ==
  IF tagList = <<>> THEN <<>>
  ELSE << [kind |-> "InsertOrIgnoreTag", name |-> Head(tagList)],
          [kind |-> "InsertImageTag", id |-> id, name |-> Head(tagList)] >>
       \o EnsureAndLink(id, Tail(tagList))

saveImageStatements(m) ==
  << [kind |-> "InsertImage", row |-> BindImageRow(m)] >> \o EnsureAndLink(m.id, m.tags)

saveImage(d, m) == Batch(d, saveImageStatements(m))

\* a tag replacement that never removes the old links
RemoveOldNothing(id, oldList, newSet) == <<>>

RECURSIVE RemoveOld(_, _, _)
RemoveOld(id, oldList, newSet) ==
  IF oldList = <<>> THEN <<>>
  ELSE (IF Head(oldList) \notin newSet
        THEN << [kind |-> "DeleteImageTag", id |-> id, name |-> Head(oldList)] >>
        ELSE <<>>)
       \o RemoveOld(id, Tail(oldList), newSet)

RECURSIVE AddNew(_, _, _)
AddNew(id, newList, oldSet) ==
  IF newList = <<>> THEN <<>>
  ELSE (IF Head(newList) \notin oldSet
        THEN << [kind |-> "InsertOrIgnoreTag", name |-> Head(newList)],
                [kind |-> "InsertOrIgnoreImageTag", id |-> id, name |-> Head(newList)] >>
        ELSE <<>>)
       \o AddNew(id, Tail(newList), oldSet)

\* updates = [hasTags, tags, expiryTime]; image is the record getImage returned
updateImageStatements(image, id, updates) ==
  (IF updates.hasTags
   THEN RemoveOld(id, SetToSeq(image.tags), Range(updates.tags))
        \o AddNew(id, Dedup(updates.tags), image.tags)
   ELSE <<>>)
  \o (IF updates.expiryTime # UNDEF
      THEN << [kind |-> "UpdateExpiry", id |-> id, value |-> OrNull(updates.expiryTime)] >>
      ELSE <<>>)

\* the write half of updateImage: the batch is skipped when it is empty
updateImageWrite(d, image, id, updates) ==
  LET stmts == updateImageStatements(image, id, updates) IN
  IF Len(stmts) > 0 THEN Batch(d, stmts) ELSE Ok(d, 0)

\* an updateImage without "if (!image) return null": a missing record is
\* taken for one without tags
updateImageNoNullCheck(d, id, updates) ==
  LET image == getImage(d, id)
      seen == IF image = Null THEN [tags |-> {}] ELSE image
      r == updateImageWrite(d, seen, id, updates)
  IN [ok |-> r.ok, db |-> r.db, result |-> getImage(r.db, id),
      writes |-> Len(updateImageStatements(seen, id, updates))]

\* writes is the number of statements handed to the batch
updateImage(d, id, updates) ==
  LET image == getImage(d, id)
      r == updateImageWrite(d, image, id, updates)
  IN IF image = Null
     THEN [ok |-> TRUE, db |-> d, result |-> Null, writes |-> 0]
     ELSE [ok |-> r.ok, db |-> r.db, result |-> getImage(r.db, id),
           writes |-> Len(updateImageStatements(image, id, updates))]

deleteImage(d, id) == DeleteImageRow(d, id)

\* a deleteImage that returns result.success alone
deleteImageResultSuccessOnly(r) == r.ok

\* return result.success && (result.meta?.changes || 0) > 0
deleteImageResult(r) == r.ok /\ r.changes > 0

createTag(d, name) == InsertOrIgnoreTag(d, name)

\* the count query without its WHERE t.name = ?
CountLinksAll(d, name) == Cardinality(d.image_tags)

\* SELECT COUNT(*) FROM image_tags it JOIN tags t ON it.tag_id = t.id WHERE t.name = ?
CountLinks(d, name) ==
  Cardinality({r \in d.image_tags : \E t \in d.tags : t.id = r.tag_id /\ t.name = name})

renameTag(d, oldName, newName) == UpdateTagName(d, newName, oldName)

deleteTag(d, name) == DeleteTagRow(d, name)

RECURSIVE EnsureAll(_)
EnsureAll(tagList) ==
  IF tagList = <<>> THEN <<>>
  ELSE << [kind |-> "InsertOrIgnoreTag", name |-> Head(tagList)] >> \o EnsureAll(Tail(tagList))

RECURSIVE RemoveAll(_, _)
RemoveAll(id, tagList) ==
  IF tagList = <<>> THEN <<>>
  ELSE << [kind |-> "DeleteImageTag", id |-> id, name |-> Head(tagList)] >>
       \o RemoveAll(id, Tail(tagList))

RECURSIVE LinkAll(_, _)
LinkAll(id, tagList) ==
  IF tagList = <<>> THEN <<>>
  ELSE << [kind |-> "InsertOrIgnoreImageTag", id |-> id, name |-> Head(tagList)] >>
       \o LinkAll(id, Tail(tagList))

\* the statements of batchUpdateTags with the additions queued before the removals
RECURSIVE PerImageAddFirst(_, _, _)
PerImageAddFirst(idList, addTags, removeTags) ==
  IF idList = <<>> THEN <<>>
  ELSE LinkAll(Head(idList), addTags) \o RemoveAll(Head(idList), removeTags)
       \o PerImageAddFirst(Tail(idList), addTags, removeTags)

RECURSIVE PerImage(_, _, _)
PerImage(idList, addTags, removeTags) ==
  IF idList = <<>> THEN <<>>
  ELSE RemoveAll(Head(idList), removeTags) \o LinkAll(Head(idList), addTags)
       \o PerImage(Tail(idList), addTags, removeTags)

batchUpdateTagsStatements(idList, addTags, removeTags) ==
  EnsureAll(addTags) \o PerImage(idList, addTags, removeTags)

batchUpdateTags(d, idList, addTags, removeTags) ==
  Batch(d, batchUpdateTagsStatements(idList, addTags, removeTags))

(* ------------------------------ queries ------------------------------- *)

\* FROM images i JOIN image_tags it ON i.id = it.image_id JOIN tags t ON it.tag_id = t.id
JoinRows(d) ==
  {[i |-> i, t |-> t] : i \in d.images, t \in d.tags} \cap
  {r \in [i : d.images, t : d.tags] :
     \E it \in d.image_tags : it.image_id = r.i.id /\ it.tag_id = r.t.id}

\* the exclusion subquery left out
ExcludedIdsNone(d, exclude) == {}

\* SELECT it2.image_id FROM image_tags it2 JOIN tags t2 ... WHERE t2.name IN (exclude)
ExcludedIds(d, exclude) ==
  {it2.image_id : it2 \in {x \in d.image_tags :
                             \E t2 \in d.tags : t2.id = x.tag_id /\ t2.name \in Range(exclude)}}

\* getRandomImage without the HAVING clause: any listed tag qualifies
RandomCandidatesAnyTag(d, filters) ==
  LET useTags == Len(filters.tags) > 0
      excluded == IF Len(filters.exclude) > 0 THEN ExcludedIds(d, filters.exclude) ELSE {}
      keep(i) == /\ i.id \notin excluded
                 /\ ~Falsy(filters.orientation) => i.orientation = filters.orientation
      matched == {r \in JoinRows(d) : r.t.name \in Range(filters.tags) /\ keep(r.i)}
  IN IF useTags THEN {r.i : r \in matched} ELSE {i \in d.images : keep(i)}

\* filters = [tags, exclude, orientation]; the rows the SELECT of getRandomImage
\* can yield before ORDER BY RANDOM() LIMIT 1
RandomCandidates(d, filters) ==
  LET useTags == Len(filters.tags) > 0
      excluded == IF Len(filters.exclude) > 0 THEN ExcludedIds(d, filters.exclude) ELSE {}
      keep(i) == /\ i.id \notin excluded
                 /\ ~Falsy(filters.orientation) => i.orientation = filters.orientation
      matched == {r \in JoinRows(d) : r.t.name \in Range(filters.tags) /\ keep(r.i)}
      group(i) == {r \in matched : r.i.id = i.id}
  IN IF useTags
     THEN {i \in {r.i : r \in matched} :
             Cardinality({r.t.name : r \in group(i)}) = Len(filters.tags)}
     ELSE {i \in d.images : keep(i)}

\* upload_time values in ascending (lexicographic = chronological) order
UploadTimes == <<"2025-01-01T00:00:00.000Z", "2025-02-02T00:00:00.000Z">>

TimeRank(t) == CHOOSE k \in 1..Len(UploadTimes) : UploadTimes[k] = t

\* ORDER BY upload_time DESC; rows with equal upload_time come in the scan
\* order of the engine, which is a function of the stored rows
RECURSIVE OrderByUploadTimeDesc(_)
OrderByUploadTimeDesc(rows) ==
  IF rows = {} THEN <<>>
  ELSE LET top == CHOOSE r \in rows :
                    \A o \in rows : TimeRank(o.upload_time) <= TimeRank(r.upload_time)
       IN <<top>> \o OrderByUploadTimeDesc(rows \ {top})

\* a mistaken offset: the page number taken for the row offset
OffsetPageOnly(page, limit) == page - 1

\* const offset = (page - 1) * limit
Offset(page, limit) == (page - 1) * limit

\* LIMIT ? OFFSET ?
LimitOffset(rowSeq, limit, offset) ==
  SubSeq(rowSeq, offset + 1, IF offset + limit < Len(rowSeq) THEN offset + limit ELSE Len(rowSeq))

\* the tag join and WHERE clause of getImages with the orientation test left out
FromWhereNoOrientation(d, tag, orientation) ==
  IF ~Falsy(tag)
  THEN {r.i : r \in {x \in JoinRows(d) : x.t.name = tag}}
  ELSE d.images

\* baseQuery + whereClause of getImages: the images the joined rows belong to
FromWhere(d, tag, orientation) ==
  LET keep(i) == ~Falsy(orientation) => i.orientation = orientation IN
  IF ~Falsy(tag)
  THEN {r.i : r \in {x \in JoinRows(d) : x.t.name = tag /\ keep(x.i)}}
  ELSE {i \in d.images : keep(i)}

enrichWithTags(d, rowSeq) ==
  [k \in 1..Len(rowSeq) |-> rowToMetadata(rowSeq[k], TagNamesOf(d, rowSeq[k].id))]

\* filters = [page, limit, tag, orientation]
getImages(d, filters) ==
  LET offset == Offset(filters.page, filters.limit)
      matched == FromWhere(d, filters.tag, filters.orientation)
      total == Cardinality({i.id : i \in matched})
      page == LimitOffset(OrderByUploadTimeDesc(matched), filters.limit, offset)
  IN [images |-> enrichWithTags(d, page), total |-> total]

\* tag names in ascending order
SortedNames == <<"a", "b", "c">>

NameRank(n) == CHOOSE k \in 1..Len(SortedNames) : SortedNames[k] = n

\* the groups of an inner join: tags without a link row have no group
TagGroupsInnerJoin(d) ==
  {[id |-> t.id, name |-> t.name,
    count |-> Cardinality({r \in d.image_tags : r.tag_id = t.id})] :
     t \in {u \in d.tags : \E r \in d.image_tags : r.tag_id = u.id}}

\* FROM tags t LEFT JOIN image_tags it ON t.id = it.tag_id GROUP BY t.id, t.name
\* with COUNT(it.image_id) per group
TagGroups(d) ==
  {[id |-> t.id, name |-> t.name,
    count |-> Cardinality({r \in d.image_tags : r.tag_id = t.id})] : t \in d.tags}

\* ORDER BY t.name
RECURSIVE OrderByName(_)
OrderByName(groups) ==
  IF groups = {} THEN <<>>
  ELSE LET first == CHOOSE g \in groups :
                      \A o \in groups : NameRank(g.name) <= NameRank(o.name)
       IN <<first>> \o OrderByName(groups \ {first})

getAllTags(d) ==
  LET ordered == OrderByName(TagGroups(d))
  IN [k \in 1..Len(ordered) |-> [name |-> ordered[k].name, count |-> ordered[k].count]]

\* values of new Date().toISOString() and of expiry_time in ascending order;
\* strings of this one format compare as the instants they denote
Instants == <<"2025-12-31T23:59:59.999Z", "2026-01-01T00:00:00.000Z",
              "2026-01-01T00:00:00.001Z">>

InstantRank(t) == CHOOSE k \in 1..Len(Instants) : Instants[k] = t

\* the WHERE clause with expiry_time <= ?
ExpiredRowsInclusive(d, now) ==
  {r \in d.images : r.expiry_time # NULL
                     /\ InstantRank(r.expiry_time) <= InstantRank(now)}

\* SELECT * FROM images WHERE expiry_time IS NOT NULL AND expiry_time < ?
ExpiredRows(d, now) ==
  {r \in d.images : r.expiry_time # NULL
                     /\ InstantRank(r.expiry_time) < InstantRank(now)}

\* the rows come in the scan order of the engine
getExpiredImages(d, now) == enrichWithTags(d, SetToSeq(ExpiredRows(d, now)))

(* ------------------------ what the tables hold ------------------------ *)

HasImage(d, id) == \E r \in d.images : r.id = id
HasTag(d, name) == \E t \in d.tags : t.name = name
Linked(d, id, name) ==
  \E t \in d.tags : t.name = name /\ [image_id |-> id, tag_id |-> t.id] \in d.image_tags
LinksOf(d, id) == {r \in d.image_tags : r.image_id = id}

\* the images that satisfy the filters of getRandomImage, read off the links
Qualifying(d, filters) ==
  {i \in d.images :
     /\ \A name \in Range(filters.tags) : Linked(d, i.id, name)
     /\ \A name \in Range(filters.exclude) : ~Linked(d, i.id, name)
     /\ ~Falsy(filters.orientation) => i.orientation = filters.orientation}

(* ------------------------------ actions ------------------------------- *)

\* One caller issues the calls of Spec one at a time: a call runs the whole
\* method and leaves its arguments, its outcome and the database it started
\* from in "last"; Return hands the outcome back and frees the caller.

Install(d) ==
  /\ images' = d.images
  /\ tags' = d.tags
  /\ image_tags' = d.image_tags
  /\ seq' = d.seq

Quiet == [op |-> "idle"]
Idle == [pc |-> "idle"]
ProcIds == {1, 2}

Init ==
  /\ images = {}
  /\ tags = {}
  /\ image_tags = {}
  /\ seq = 0
  /\ last = Quiet
  /\ procs = [p \in ProcIds |-> Idle]
  /\ bucket = {}

Return ==
  /\ last # Quiet
  /\ last' = Quiet
  /\ UNCHANGED <<images, tags, image_tags, seq, procs, bucket>>

SaveImage ==
  \E m \in InputRecords :
    LET r == saveImage(DB, m) IN
    /\ last = Quiet
    /\ r.db.seq <= MaxTagId
    /\ Install(r.db)
    /\ last' = [op |-> "saveImage", m |-> m, ok |-> r.ok, pre |-> DB]
    /\ UNCHANGED <<procs, bucket>>

GetImage ==
  \E id \in ImageIds :
    /\ last = Quiet
    /\ last' = [op |-> "getImage", id |-> id, result |-> getImage(DB, id), pre |-> DB]
    /\ UNCHANGED <<images, tags, image_tags, seq, procs, bucket>>

UpdateInputs ==
  [hasTags : {TRUE}, tags : TagLists, expiryTime : {UNDEF, Expiry1}]
  \cup [hasTags : {FALSE}, tags : {<<>>}, expiryTime : {UNDEF, Expiry1}]

\* updateImage with nothing scheduled between its reads and its batch
UpdateImageAmong(inputs) ==
  \E id \in ImageIds, u \in inputs :
    LET r == updateImage(DB, id, u)
    IN /\ last = Quiet
       /\ r.db.seq <= MaxTagId
       /\ Install(r.db)
       /\ last' = [op |-> "updateImage", id |-> id, updates |-> u, ok |-> r.ok,
                   result |-> r.result, writes |-> r.writes, pre |-> DB]
       /\ UNCHANGED <<procs, bucket>>

UpdateImage == UpdateImageAmong(UpdateInputs)

DeleteImage ==
  \E id \in ImageIds :
    LET r == deleteImage(DB, id) IN
    /\ last = Quiet
    /\ Install(r.db)
    /\ last' = [op |-> "deleteImage", id |-> id, result |-> deleteImageResult(r),
                pre |-> DB]
    /\ UNCHANGED <<procs, bucket>>

FilterInputs ==
  [tags : TagLists, exclude : SeqsUpTo(TagNames, 1), orientation : {UNDEF, "landscape"}]

GetRandomImage ==
  \E f \in FilterInputs :
    LET cands == RandomCandidates(DB, f) IN
    /\ last = Quiet
    /\ \/ cands = {} /\ last' = [op |-> "getRandomImage", filters |-> f,
                                 result |-> Null, pre |-> DB]
       \/ \E row \in cands :
            last' = [op |-> "getRandomImage", filters |-> f,
                     result |-> getImage(DB, row.id), pre |-> DB]
    /\ UNCHANGED <<images, tags, image_tags, seq, procs, bucket>>

ListInputs ==
  [page : {1, 2}, limit : {1, 2}, tag : {UNDEF} \cup TagNames,
   orientation : {UNDEF} \cup Orientations]

GetImages ==
  \E f \in ListInputs :
    /\ last = Quiet
    /\ last' = [op |-> "getImages", filters |-> f, result |-> getImages(DB, f), pre |-> DB]
    /\ UNCHANGED <<images, tags, image_tags, seq, procs, bucket>>

GetAllTags ==
  /\ last = Quiet
  /\ last' = [op |-> "getAllTags", result |-> getAllTags(DB), pre |-> DB]
  /\ UNCHANGED <<images, tags, image_tags, seq, procs, bucket>>

\* now is what the clock of the worker shows when the call runs
GetExpiredImages ==
  \E now \in Range(Instants) :
    /\ last = Quiet
    /\ last' = [op |-> "getExpiredImages", now |-> now,
                result |-> getExpiredImages(DB, now), pre |-> DB]
    /\ UNCHANGED <<images, tags, image_tags, seq, procs, bucket>>

CreateTag ==
  \E name \in TagNames :
    LET r == createTag(DB, name) IN
    /\ last = Quiet
    /\ r.db.seq <= MaxTagId
    /\ Install(r.db)
    /\ last' = [op |-> "createTag", name |-> name, ok |-> r.ok, pre |-> DB]
    /\ UNCHANGED <<procs, bucket>>

\* renameTag with nothing scheduled between its count and its UPDATE
RenameTagAmong(names) ==
  \E oldName \in names, newName \in names :
    LET count == CountLinks(DB, oldName)
        r == renameTag(DB, oldName, newName)
    IN /\ last = Quiet
       /\ Install(r.db)
       /\ last' = [op |-> "renameTag", oldName |-> oldName, newName |-> newName,
                   ok |-> r.ok, result |-> count, pre |-> DB]
       /\ UNCHANGED <<procs, bucket>>

RenameTag == RenameTagAmong(TagNames)

\* deleteTag with nothing scheduled between its count and its DELETE
DeleteTagAmong(names) ==
  \E name \in names :
    LET count == CountLinks(DB, name)
        r == deleteTag(DB, name)
    IN /\ last = Quiet
       /\ Install(r.db)
       /\ last' = [op |-> "deleteTag", name |-> name, ok |-> r.ok, result |-> count,
                   pre |-> DB]
       /\ UNCHANGED <<procs, bucket>>

DeleteTag == DeleteTagAmong(TagNames)

IdLists == {<<"i1">>, <<"i2">>, <<"i1", "i2">>}

BatchUpdateTags ==
  \E idList \in IdLists, addTags \in TagLists, removeTags \in SeqsUpTo(TagNames, 1) :
    LET r == batchUpdateTags(DB, idList, addTags, removeTags) IN
    /\ last = Quiet
    /\ r.db.seq <= MaxTagId
    /\ Install(r.db)
    /\ last' = [op |-> "batchUpdateTags", imageIds |-> idList, addTags |-> addTags,
                removeTags |-> removeTags, ok |-> r.ok, result |-> Len(idList),
                pre |-> DB]
    /\ UNCHANGED <<procs, bucket>>

Next ==
  \/ SaveImage
  \/ GetImage
  \/ UpdateImage
  \/ DeleteImage
  \/ GetRandomImage
  \/ GetImages
  \/ GetAllTags
  \/ GetExpiredImages
  \/ CreateTag
  \/ RenameTag
  \/ DeleteTag
  \/ BatchUpdateTags
  \/ Return

Spec == Init /\ [][Next]_vars

\* SpecAdmin: the tag administration calls over AdminNames, next to the calls
\* that create and remove images and tags
AdminRenameTag == RenameTagAmong(AdminNames)

AdminDeleteTag == DeleteTagAmong(AdminNames)

NextAdmin ==
  \/ SaveImage
  \/ DeleteImage
  \/ CreateTag
  \/ AdminRenameTag
  \/ AdminDeleteTag
  \/ Return

SpecAdmin == Init /\ [][NextAdmin]_vars

\* SpecFrame: updateImage is handed a Partial<ImageMetadata> that also carries
\* fields of the record other than tags and expiryTime
CarryingInputs ==
  [hasTags : {TRUE}, tags : SeqsUpTo(TagNames, 1), expiryTime : {UNDEF, Expiry1},
   orientation : Orientations, uploadTime : {UploadTimes[2]}]
  \cup [hasTags : {FALSE}, tags : {<<>>}, expiryTime : {UNDEF, Expiry1},
        orientation : Orientations, uploadTime : {UploadTimes[2]}]

CarryingUpdateImage == UpdateImageAmong(CarryingInputs)

NextFrame ==
  \/ SaveImage
  \/ CarryingUpdateImage
  \/ BatchUpdateTags
  \/ CreateTag
  \/ RenameTag
  \/ DeleteTag
  \/ Return

SpecFrame == Init /\ [][NextFrame]_vars

(* --------------------------- upload handlers -------------------------- *)

\* bucket holds one object per (image id, slot); data tells whose bytes they
\* are: the file's own ("orig") or a compressed variant ("webp", "avif").
\* The n-th storage.upload call made for a file fails when n is in "fails".

MAX_FILE_SIZE == 10 * 1024 * 1024

Still == CHOOSE b \in BaseRecords : b.format = "jpeg"

\* the files of a request: what ImageProcessor reports of each, and its size
UploadFiles ==
  {[b |-> b, size |-> b.sizes.original, supported |-> TRUE] : b \in BaseRecords}
  \cup {[b |-> Still, size |-> MAX_FILE_SIZE + 1, supported |-> TRUE],
        [b |-> Still, size |-> Still.sizes.original, supported |-> FALSE]}

\* compression.compress: which variants it returns, or that it throws
CompressOutcomes == {"both", "webp", "neither", "throws"}

\* at most one storage.upload call of a file fails
FailureSets == {{}} \cup {{n} : n \in 1..5}

FileEnvs == [comp : CompressOutcomes, fails : FailureSets]

\* bound: c.env.IMAGES is configured; cacheFails: the invalidation rejects
Requests ==
  [tags : {<<"a">>}, expiryMinutes : {0, 5}, bound : BOOLEAN, cacheFails : BOOLEAN]

\* R2 put: a later object under the same key replaces the earlier one
Put(bkt, id, slot, data) ==
  {o \in bkt : ~(o.id = id /\ o.slot = slot)} \cup {[id |-> id, slot |-> slot, data |-> data]}

\* awaited one after the other: the first failing call throws
RECURSIVE RunUploads(_, _, _, _, _)
RunUploads(bkt, id, plan, n, fails) ==
  IF plan = <<>> THEN [bucket |-> bkt, ok |-> TRUE, next |-> n, failed |-> FALSE]
  ELSE IF n \in fails THEN [bucket |-> bkt, ok |-> FALSE, next |-> n + 1, failed |-> TRUE]
  ELSE RunUploads(Put(bkt, id, Head(plan).slot, Head(plan).data), id, Tail(plan),
                  n + 1, fails)

\* started together under Promise.all: every call that does not fail writes
RECURSIVE RunTogether(_, _, _, _, _)
RunTogether(bkt, id, plan, n, fails) ==
  IF plan = <<>> THEN [bucket |-> bkt, ok |-> TRUE, next |-> n, failed |-> FALSE]
  ELSE LET rest == RunTogether(IF n \in fails THEN bkt
                               ELSE Put(bkt, id, Head(plan).slot, Head(plan).data),
                               id, Tail(plan), n + 1, fails)
       IN [rest EXCEPT !.ok = @ /\ n \notin fails, !.failed = @ \/ n \in fails]

\* the webp and avif uploads chosen from compressionResult
VariantPlan(comp) ==
  << [slot |-> "webp", data |-> IF comp \in {"both", "webp"} THEN "webp" ELSE "orig"],
     [slot |-> "avif", data |-> IF comp = "both" THEN "avif" ELSE "orig"] >>

\* "store original for both formats"
FallbackPlan == << [slot |-> "webp", data |-> "orig"], [slot |-> "avif", data |-> "orig"] >>

OriginalPlan == << [slot |-> "original", data |-> "orig"] >>

\* webpSize / avifSize as the plan that completed sets them
SizeOf(file, data) ==
  CASE data = "orig" -> file.size
    [] data = "webp" -> file.b.sizes.webp
    [] data = "avif" -> file.b.sizes.avif

SizesOf(file, plan) ==
  [original |-> file.size, webp |-> SizeOf(file, plan[1].data),
   avif |-> SizeOf(file, plan[2].data)]

ExpiryTimeOf(expiryMinutes) == IF expiryMinutes > 0 THEN Expiry1 ELSE UNDEF

\* const imageMetadata: ImageMetadata = { ... }
ImageMetadataOf(id, file, req, sizes) ==
  [Metadata(file.b, id, ExpiryTimeOf(req.expiryMinutes), req.tags) EXCEPT !.sizes = sizes]

MAX_UPLOAD_COUNT == 20

\* what became of one file: its result status, whether its record was saved,
\* whether a storage.upload call made for it failed, and the record
FileError(d, bkt, failed) ==
  [db |-> d, bucket |-> bkt, status |-> "error", saved |-> FALSE, failed |-> failed,
   record |-> Null]

\* await metadata.saveImage(imageMetadata); a failed batch throws
SaveRecord(d, bkt, id, file, req, sizes, failed) ==
  LET m == ImageMetadataOf(id, file, req, sizes)
      s == saveImage(d, m)
  IN IF s.ok
     THEN [db |-> s.db, bucket |-> bkt, status |-> "success", saved |-> TRUE,
           failed |-> failed, record |-> m]
     ELSE FileError(d, bkt, failed)

GifSizes(file) == [original |-> file.size, webp |-> 0, avif |-> 0]

\* the body of uploadSingleHandler from the size check to saveImage
uploadSingleFile(d, bkt, id, file, req, env) ==
  IF file.size > MAX_FILE_SIZE \/ ~file.supported THEN FileError(d, bkt, FALSE)
  ELSE IF file.b.format = "gif"
  THEN LET o == RunUploads(bkt, id, OriginalPlan, 1, env.fails) IN
       IF o.ok THEN SaveRecord(d, o.bucket, id, file, req, GifSizes(file), FALSE)
       ELSE FileError(d, o.bucket, TRUE)
  ELSE IF req.bound
  THEN LET o == RunTogether(bkt, id, OriginalPlan, 1, env.fails)
           t == RunTogether(o.bucket, id, VariantPlan(env.comp), o.next, env.fails)
       IN IF ~o.ok \/ env.comp = "throws" THEN FileError(d, o.bucket, o.failed)
          ELSE IF t.ok
          THEN SaveRecord(d, t.bucket, id, file, req,
                          SizesOf(file, VariantPlan(env.comp)), FALSE)
          ELSE FileError(d, t.bucket, TRUE)
  ELSE LET a == RunTogether(bkt, id, OriginalPlan \o FallbackPlan, 1, env.fails) IN
       IF a.ok THEN SaveRecord(d, a.bucket, id, file, req,
                               SizesOf(file, FallbackPlan), FALSE)
       ELSE FileError(d, a.bucket, TRUE)

\* one iteration of the loop of uploadHandler; the try around compress also
\* catches what the uploads inside it throw
uploadHandlerFile(d, bkt, id, file, req, env) ==
  IF file.size > MAX_FILE_SIZE \/ ~file.supported THEN FileError(d, bkt, FALSE)
  ELSE LET o == RunUploads(bkt, id, OriginalPlan, 1, env.fails)
           t == RunUploads(o.bucket, id, VariantPlan(env.comp), o.next, env.fails)
           caught == req.bound /\ (env.comp = "throws" \/ ~t.ok)
           from == IF req.bound /\ env.comp # "throws" THEN t ELSE o
           f == RunUploads(from.bucket, id, FallbackPlan, from.next, env.fails)
       IN IF ~o.ok THEN FileError(d, o.bucket, TRUE)
          ELSE IF file.b.format = "gif"
          THEN SaveRecord(d, o.bucket, id, file, req, GifSizes(file), FALSE)
          ELSE IF req.bound /\ ~caught
          THEN SaveRecord(d, t.bucket, id, file, req,
                          SizesOf(file, VariantPlan(env.comp)), FALSE)
          ELSE IF f.ok
          THEN SaveRecord(d, f.bucket, id, file, req, SizesOf(file, FallbackPlan),
                          from.failed)
          ELSE FileError(d, f.bucket, TRUE)

Outcome(r) == [status |-> r.status, saved |-> r.saved, failed |-> r.failed,
               record |-> r.record]

\* cache invalidation handed to waitUntil: the response does not wait for it
uploadSingleHandler(d, bkt, id, file, req, env) ==
  LET r == uploadSingleFile(d, bkt, id, file, req, env) IN
  [db |-> r.db, bucket |-> r.bucket, outcomes |-> << Outcome(r) >>,
   response |-> r.status]

\* for (const file of files) { try { ... } catch { results.push(error) } }
\* (r is the one value the iteration produced)
RECURSIVE UploadLoop(_, _, _, _, _, _)
UploadLoop(d, bkt, ids, files, req, envs) ==
  IF files = <<>> THEN [db |-> d, bucket |-> bkt, outcomes |-> <<>>]
  ELSE CHOOSE l \in
         {[UploadLoop(r.db, r.bucket, Tail(ids), Tail(files), req, Tail(envs))
             EXCEPT !.outcomes = << Outcome(r) >> \o @] :
            r \in {uploadHandlerFile(d, bkt, Head(ids), Head(files), req, Head(envs))}} :
         TRUE

successCount(outcomes) ==
  Cardinality({k \in 1..Len(outcomes) : outcomes[k].status = "success"})

\* the invalidation is awaited inside the outer try
uploadHandler(d, bkt, ids, files, req, envs) ==
  IF Len(files) = 0 \/ Len(files) > MAX_UPLOAD_COUNT
  THEN [db |-> d, bucket |-> bkt, outcomes |-> <<>>, response |-> "error"]
  ELSE CHOOSE h \in
         {[db |-> l.db, bucket |-> l.bucket, outcomes |-> l.outcomes,
           response |-> IF successCount(l.outcomes) > 0 /\ req.cacheFails THEN "error"
                        ELSE "success"] :
            l \in {UploadLoop(d, bkt, ids, files, req, envs)}} :
         TRUE

\* generateImageId: ids no earlier upload was given
FreshIds == ImageIds \ ({r.id : r \in images} \cup {o.id : o \in bucket})

UploadSingle ==
  /\ last = Quiet
  /\ \E id \in FreshIds, file \in UploadFiles, req \in Requests, env \in FileEnvs :
    \E r \in {uploadSingleHandler(DB, bucket, id, file, req, env)} :
    /\ r.db.seq <= MaxTagId
    /\ Install(r.db)
    /\ bucket' = r.bucket
    /\ last' = [op |-> "uploadSingle", ids |-> <<id>>, files |-> <<file>>, req |-> req,
                envs |-> <<env>>, outcomes |-> r.outcomes, response |-> r.response,
                pre |-> DB]
    /\ UNCHANGED procs

Upload ==
  /\ last = Quiet
  /\ \E n \in 0..Cardinality(FreshIds) :
    \E files \in [1..n -> UploadFiles], req \in Requests, envs \in [1..n -> FileEnvs] :
      \E r \in {uploadHandler(DB, bucket, SetToSeq(FreshIds), files, req, envs)} :
      /\ r.db.seq <= MaxTagId
      /\ Install(r.db)
      /\ bucket' = r.bucket
      /\ last' = [op |-> "upload", ids |-> SubSeq(SetToSeq(FreshIds), 1, n),
                  files |-> files, req |-> req, envs |-> envs, outcomes |-> r.outcomes,
                  response |-> r.response, pre |-> DB]
      /\ UNCHANGED procs

NextUpload ==
  \/ UploadSingle
  \/ Upload
  \/ DeleteImage
  \/ Return

SpecUpload == Init /\ [][NextUpload]_vars

(* ------------------------- concurrent callers ------------------------- *)

\* Under SpecConc the requests of ProcIds overlap.  updateImage is split at
\* its awaits: the two queries of getImage, the batch, and the two queries of
\* the closing getImage.  saveImage and deleteImage are one database request
\* each.  "clean" is history: it turns FALSE when a request other than an
\* updateImage batch writes while the call is in progress or awaiting pickup.

\* the overlapping requests all address one image
ConcImageIds == {"i1"}

ConcRecords == {m \in InputRecords : m.id \in ConcImageIds /\ Len(m.tags) <= 1}

ConcUpdateInputs ==
  [hasTags : {TRUE}, tags : SeqsUpTo(TagNames, 1), expiryTime : {UNDEF}]
  \cup {[hasTags |-> FALSE, tags |-> <<>>, expiryTime |-> Expiry1]}

Disturbed == [p \in ProcIds |-> IF procs[p].pc = "idle" THEN procs[p]
                                 ELSE [procs[p] EXCEPT !.clean = FALSE]]

ConcSaveImage ==
  \E m \in ConcRecords :
    LET r == saveImage(DB, m) IN
    /\ r.db.seq <= MaxTagId
    /\ Install(r.db)
    /\ procs' = Disturbed
    /\ UNCHANGED <<last, bucket>>

ConcDeleteImage ==
  \E id \in ConcImageIds :
    /\ Install(deleteImage(DB, id).db)
    /\ procs' = Disturbed
    /\ UNCHANGED <<last, bucket>>

UpdBegin(p) ==
  \E id \in ConcImageIds, u \in ConcUpdateInputs :
    /\ procs[p].pc = "idle"
    /\ procs' = [procs EXCEPT ![p] = [pc |-> "getRow", id |-> id, updates |-> u,
                                      clean |-> TRUE]]
    /\ UNCHANGED <<images, tags, image_tags, seq, last, bucket>>

\* getImage, first query: SELECT * FROM images WHERE id = ?
UpdGetRow(p) ==
  LET me == procs[p]
      hit == {r \in images : r.id = me.id}
  IN /\ me.pc = "getRow"
     /\ procs' = [procs EXCEPT ![p] =
          IF hit = {}
          THEN [pc |-> "done", id |-> me.id, updates |-> me.updates, clean |-> me.clean,
                found |-> FALSE, ok |-> TRUE, result |-> Null]
          ELSE [pc |-> "getTags", id |-> me.id, updates |-> me.updates,
                clean |-> me.clean, row |-> CHOOSE r \in hit : TRUE]]
     /\ UNCHANGED <<images, tags, image_tags, seq, last, bucket>>

\* getImage, second query: the tag names; then the statements are built
UpdGetTags(p) ==
  LET me == procs[p]
      image == rowToMetadata(me.row, TagNamesOf(DB, me.id))
      stmts == updateImageStatements(image, me.id, me.updates)
  IN /\ me.pc = "getTags"
     /\ procs' = [procs EXCEPT ![p] =
          [pc |-> IF Len(stmts) > 0 THEN "batch" ELSE "reGetRow",
           id |-> me.id, updates |-> me.updates, clean |-> me.clean, stmts |-> stmts]]
     /\ UNCHANGED <<images, tags, image_tags, seq, last, bucket>>

\* await this.db.batch(statements); a failed batch throws out of updateImage
UpdBatch(p) ==
  LET me == procs[p]
      r == Batch(DB, me.stmts)
  IN /\ me.pc = "batch"
     /\ r.db.seq <= MaxTagId
     /\ Install(r.db)
     /\ procs' = [procs EXCEPT ![p] =
          IF r.ok
          THEN [pc |-> "reGetRow", id |-> me.id, updates |-> me.updates,
                clean |-> me.clean, stmts |-> me.stmts]
          ELSE [pc |-> "done", id |-> me.id, updates |-> me.updates, clean |-> me.clean,
                found |-> TRUE, ok |-> FALSE, result |-> Null]]
     /\ UNCHANGED <<last, bucket>>

\* return this.getImage(id), first query
UpdReGetRow(p) ==
  LET me == procs[p]
      hit == {r \in images : r.id = me.id}
  IN /\ me.pc = "reGetRow"
     /\ procs' = [procs EXCEPT ![p] =
          IF hit = {}
          THEN [pc |-> "done", id |-> me.id, updates |-> me.updates, clean |-> me.clean,
                found |-> TRUE, ok |-> TRUE, result |-> Null]
          ELSE [pc |-> "reGetTags", id |-> me.id, updates |-> me.updates,
                clean |-> me.clean, row |-> CHOOSE r \in hit : TRUE]]
     /\ UNCHANGED <<images, tags, image_tags, seq, last, bucket>>

\* return this.getImage(id), second query
UpdReGetTags(p) ==
  LET me == procs[p] IN
  /\ me.pc = "reGetTags"
  /\ procs' = [procs EXCEPT ![p] =
       [pc |-> "done", id |-> me.id, updates |-> me.updates, clean |-> me.clean,
        found |-> TRUE, ok |-> TRUE,
        result |-> rowToMetadata(me.row, TagNamesOf(DB, me.id))]]
  /\ UNCHANGED <<images, tags, image_tags, seq, last, bucket>>

\* the caller picks the outcome up
Finish(p) ==
  /\ procs[p].pc = "done"
  /\ procs' = [procs EXCEPT ![p] = Idle]
  /\ UNCHANGED <<images, tags, image_tags, seq, last, bucket>>

NextConc ==
  \/ ConcSaveImage
  \/ ConcDeleteImage
  \/ \E p \in ProcIds : UpdBegin(p)
  \/ \E p \in ProcIds : UpdGetRow(p)
  \/ \E p \in ProcIds : UpdGetTags(p)
  \/ \E p \in ProcIds : UpdBatch(p)
  \/ \E p \in ProcIds : UpdReGetRow(p)
  \/ \E p \in ProcIds : UpdReGetTags(p)
  \/ \E p \in ProcIds : Finish(p)

SpecConc == Init /\ [][NextConc]_vars

\* Under SpecCount one caller runs renameTag or deleteTag, split at the await
\* between its count query and its write, while the writers are scheduled
\* around it; an updateImage call here has nothing scheduled between its reads
\* and its batch.  "seen" and "atWrite" are history: the link rows the count
\* query matched, and the number of links of the tag in the database the write
\* acted on.
TagAdmin == 1

LinkRowsNamed(d, name) ==
  {r \in d.image_tags : \E t \in d.tags : t.id = r.tag_id /\ t.name = name}

ConcBatchUpdateTags ==
  \E id \in ConcImageIds, addTags \in SeqsUpTo(TagNames, 1),
     removeTags \in SeqsUpTo(TagNames, 1) :
    LET r == batchUpdateTags(DB, <<id>>, addTags, removeTags) IN
    /\ r.db.seq <= MaxTagId
    /\ Install(r.db)
    /\ procs' = Disturbed
    /\ UNCHANGED <<last, bucket>>

ConcUpdateImage ==
  \E id \in ConcImageIds, u \in ConcUpdateInputs :
    LET image == getImage(DB, id)
        r == IF image = Null THEN Ok(DB, 0) ELSE updateImageWrite(DB, image, id, u)
    IN /\ r.db.seq <= MaxTagId
       /\ Install(r.db)
       /\ procs' = Disturbed
       /\ UNCHANGED <<last, bucket>>

\* renameTag, first request: the count query
RenameCount(p) ==
  \E oldName \in TagNames, newName \in TagNames :
    /\ procs[p].pc = "idle"
    /\ procs' = [procs EXCEPT ![p] =
         [pc |-> "renaming", op |-> "renameTag", name |-> oldName, newName |-> newName,
          count |-> CountLinks(DB, oldName), seen |-> LinkRowsNamed(DB, oldName),
          clean |-> TRUE]]
    /\ UNCHANGED <<images, tags, image_tags, seq, last, bucket>>

\* a renameTag that counts again in the same request as its UPDATE
RenameUpdateRecount(p) ==
  LET me == procs[p]
      r == renameTag(DB, me.name, me.newName)
  IN /\ me.pc = "renaming"
     /\ Install(r.db)
     /\ procs' = [Disturbed EXCEPT ![p] =
          [pc |-> "done", op |-> me.op, name |-> me.name, newName |-> me.newName,
           seen |-> me.seen, clean |-> me.clean, ok |-> r.ok,
           result |-> CountLinks(DB, me.name), atWrite |-> CountLinks(DB, me.name)]]
     /\ UNCHANGED <<last, bucket>>

\* renameTag, second request: the UPDATE; then return countResult?.count || 0
RenameUpdate(p) ==
  LET me == procs[p]
      r == renameTag(DB, me.name, me.newName)
  IN /\ me.pc = "renaming"
     /\ Install(r.db)
     /\ procs' = [Disturbed EXCEPT ![p] =
          [pc |-> "done", op |-> me.op, name |-> me.name, newName |-> me.newName,
           seen |-> me.seen, clean |-> me.clean, ok |-> r.ok,
           result |-> me.count, atWrite |-> CountLinks(DB, me.name)]]
     /\ UNCHANGED <<last, bucket>>

\* deleteTag, first request: the count query
DeleteCount(p) ==
  \E name \in TagNames :
    /\ procs[p].pc = "idle"
    /\ procs' = [procs EXCEPT ![p] =
         [pc |-> "deleting", op |-> "deleteTag", name |-> name, newName |-> name,
          count |-> CountLinks(DB, name), seen |-> LinkRowsNamed(DB, name),
          clean |-> TRUE]]
    /\ UNCHANGED <<images, tags, image_tags, seq, last, bucket>>

\* deleteTag, second request: the DELETE; then return countResult?.count || 0
DeleteDelete(p) ==
  LET me == procs[p]
      r == deleteTag(DB, me.name)
  IN /\ me.pc = "deleting"
     /\ Install(r.db)
     /\ procs' = [Disturbed EXCEPT ![p] =
          [pc |-> "done", op |-> me.op, name |-> me.name, newName |-> me.newName,
           seen |-> me.seen, clean |-> me.clean, ok |-> r.ok,
           result |-> me.count, atWrite |-> CountLinks(DB, me.name)]]
     /\ UNCHANGED <<last, bucket>>

NextCount ==
  \/ ConcSaveImage
  \/ ConcDeleteImage
  \/ ConcBatchUpdateTags
  \/ ConcUpdateImage
  \/ RenameCount(TagAdmin)
  \/ RenameUpdate(TagAdmin)
  \/ DeleteCount(TagAdmin)
  \/ DeleteDelete(TagAdmin)
  \/ Finish(TagAdmin)

SpecCount == Init /\ [][NextCount]_vars

\* Under SpecRandom one caller runs getRandomImage, split at its awaits: the
\* selection query and the two queries of getImage, while writers that are
\* one database request each are scheduled around it.  "left" is history:
\* whether an image satisfies the filters in the database the last query read.
Reader == 1

ReaderFilters == [tags : {<<"a">>}, exclude : {<<>>, <<"b">>}, orientation : {UNDEF}]

WriterRecords == {m \in InputRecords : m.format = "jpeg" /\ Len(m.tags) <= 1}

WriterUpdateInputs == {u \in ConcUpdateInputs : u.hasTags}

WriterSaveImage ==
  \E m \in WriterRecords :
    LET r == saveImage(DB, m) IN
    /\ r.db.seq <= MaxTagId
    /\ Install(r.db)
    /\ UNCHANGED <<last, procs, bucket>>

WriterUpdateImage ==
  \E id \in ImageIds, u \in WriterUpdateInputs :
    LET r == updateImage(DB, id, u) IN
    /\ r.db.seq <= MaxTagId
    /\ Install(r.db)
    /\ UNCHANGED <<last, procs, bucket>>

WriterBatchUpdateTags ==
  \E id \in ImageIds, addTags \in SeqsUpTo(TagNames, 1),
     removeTags \in SeqsUpTo(TagNames, 1) :
    LET r == batchUpdateTags(DB, <<id>>, addTags, removeTags) IN
    /\ r.db.seq <= MaxTagId
    /\ Install(r.db)
    /\ UNCHANGED <<last, procs, bucket>>

WriterDeleteImage ==
  \E id \in ImageIds :
    /\ Install(deleteImage(DB, id).db)
    /\ UNCHANGED <<last, procs, bucket>>

WriterDeleteTag ==
  \E name \in TagNames :
    /\ Install(deleteTag(DB, name).db)
    /\ UNCHANGED <<last, procs, bucket>>

\* the selection query: ... ORDER BY RANDOM() LIMIT 1
RndSelect(p) ==
  \E f \in ReaderFilters :
    LET cands == RandomCandidates(DB, f) IN
    /\ procs[p].pc = "idle"
    /\ \/ /\ cands = {}
          /\ procs' = [procs EXCEPT ![p] =
               [pc |-> "done", filters |-> f, result |-> Null,
                left |-> Qualifying(DB, f) # {}]]
       \/ \E row \in cands :
            procs' = [procs EXCEPT ![p] =
              [pc |-> "getRow", filters |-> f, selected |-> row.id]]
    /\ UNCHANGED <<images, tags, image_tags, seq, last, bucket>>

\* return this.getImage(result.id), first query
RndGetRow(p) ==
  LET me == procs[p]
      hit == {r \in images : r.id = me.selected}
  IN /\ me.pc = "getRow"
     /\ procs' = [procs EXCEPT ![p] =
          IF hit = {}
          THEN [pc |-> "done", filters |-> me.filters, result |-> Null,
                left |-> Qualifying(DB, me.filters) # {}]
          ELSE [pc |-> "getTags", filters |-> me.filters, selected |-> me.selected,
                row |-> CHOOSE r \in hit : TRUE]]
     /\ UNCHANGED <<images, tags, image_tags, seq, last, bucket>>

\* return this.getImage(result.id), second query
RndGetTags(p) ==
  LET me == procs[p] IN
  /\ me.pc = "getTags"
  /\ procs' = [procs EXCEPT ![p] =
       [pc |-> "done", filters |-> me.filters,
        result |-> rowToMetadata(me.row, TagNamesOf(DB, me.selected)),
        left |-> Qualifying(DB, me.filters) # {}]]
  /\ UNCHANGED <<images, tags, image_tags, seq, last, bucket>>

NextRandom ==
  \/ WriterSaveImage
  \/ WriterUpdateImage
  \/ WriterBatchUpdateTags
  \/ WriterDeleteImage
  \/ WriterDeleteTag
  \/ RndSelect(Reader)
  \/ RndGetRow(Reader)
  \/ RndGetTags(Reader)
  \/ Finish(Reader)

SpecRandom == Init /\ [][NextRandom]_vars

(* ------------------------------ claims -------------------------------- *)

\* C1: saveImage is all-or-nothing.  After a successful call the image row and
\* a link to every tag of the record are present; after a failed call the
\* database is the one the call started from (no row, no tag, no link of the
\* call remains).
C1_SaveImageAllOrNothing ==
  last.op = "saveImage" =>
    IF last.ok
    THEN /\ BindImageRow(last.m) \in images
         /\ \A name \in Range(last.m.tags) : Linked(DB, last.m.id, name)
    ELSE DB = last.pre

\* a save of a fresh ID that got past the image row and failed later
C1_Witness ==
  /\ last.op = "saveImage"
  /\ ~last.ok
  /\ ~HasImage(last.pre, last.m.id)
  /\ \E name \in Range(last.m.tags) : ~HasTag(last.pre, name)

NoDangling(d) ==
  \A r \in d.image_tags : HasImage(d, r.image_id) /\ \E t \in d.tags : t.id = r.tag_id

\* C2: every association row refers to an existing image and an existing tag,
\* and after deleteImage / deleteTag no association points to what was deleted.
C2_NoDanglingAssociations ==
  /\ NoDangling(DB)
  /\ last.op = "deleteImage" => LinksOf(DB, last.id) = {}
  /\ last.op = "deleteTag" =>
       \A t \in last.pre.tags : t.name = last.name =>
         \A r \in image_tags : r.tag_id # t.id

\* an image with links was deleted
C2_Witness ==
  /\ last.op = "deleteImage"
  /\ last.result
  /\ LinksOf(last.pre, last.id) # {}

\* C3: updateImage(id, {tags: T2}) on an existing image with tags T1, alone,
\* leaves the image linked to exactly T2, and the record it returns, which is
\* what a following getImage returns, carries exactly T2.
C3_UpdateImageReplacesTags ==
  (last.op = "updateImage" /\ HasImage(last.pre, last.id) /\ last.updates.hasTags) =>
    /\ last.ok
    /\ TagNamesOf(DB, last.id) = Range(last.updates.tags)
    /\ Cardinality(LinksOf(DB, last.id)) = Cardinality(Range(last.updates.tags))
    /\ getImage(DB, last.id) = last.result
    /\ last.result.tags = Range(last.updates.tags)

\* a replacement that both removes and adds a tag
C3_Witness ==
  /\ last.op = "updateImage"
  /\ HasImage(last.pre, last.id)
  /\ last.updates.hasTags
  /\ TagNamesOf(last.pre, last.id) \ Range(last.updates.tags) # {}
  /\ Range(last.updates.tags) \ TagNamesOf(last.pre, last.id) # {}

\* a finished updateImage call of p that replaced the tags and saw no other writer
TagUpdateDone(p) ==
  /\ procs[p].pc = "done"
  /\ procs[p].found
  /\ procs[p].ok
  /\ procs[p].clean
  /\ procs[p].updates.hasTags

\* C4: two concurrent updateImage calls replacing the tags of one image with
\* T2 and T3, with no other writer, leave the image with T2 or with T3.
C4_ConcurrentUpdatesSerial ==
  \A p \in ProcIds : \A q \in ProcIds \ {p} :
    (TagUpdateDone(p) /\ TagUpdateDone(q) /\ procs[p].id = procs[q].id
       /\ HasImage(DB, procs[p].id)) =>
      TagNamesOf(DB, procs[p].id) \in
        {Range(procs[p].updates.tags), Range(procs[q].updates.tags)}

\* the record getImage is expected to return for a saved record m
Saved(m) == [m EXCEPT !.tags = Range(m.tags)]

\* C5: saveImage(record) with a fresh ID followed by getImage(record.id)
\* returns the record, equal in every field and with the same tag set.
C5_RoundTrip ==
  (last.op = "saveImage" /\ ~HasImage(last.pre, last.m.id)) =>
    getImage(DB, last.m.id) = Saved(last.m)

\* C6: saveImage with an ID that already exists fails and leaves the store
\* unchanged, and no two image rows share an ID.
C6_DuplicateIdRejected ==
  /\ \A r1 \in images : \A r2 \in images : r1.id = r2.id => r1 = r2
  /\ (last.op = "saveImage" /\ HasImage(last.pre, last.m.id)) =>
       ~last.ok /\ DB = last.pre

\* a rejected record that differs from the stored one and names an unknown tag
C6_Witness ==
  /\ last.op = "saveImage"
  /\ HasImage(last.pre, last.m.id)
  /\ BindImageRow(last.m) \notin last.pre.images
  /\ \E name \in Range(last.m.tags) : ~HasTag(last.pre, name)

\* C7: saveImage with a fresh ID succeeds for every tag list, also one that
\* names a tag twice, and leaves exactly one link per distinct tag named.
C7_SaveImageLinksEachTagOnce ==
  (last.op = "saveImage" /\ ~HasImage(last.pre, last.m.id)) =>
    /\ last.ok
    /\ TagNamesOf(DB, last.m.id) = Range(last.m.tags)
    /\ Cardinality(LinksOf(DB, last.m.id)) = Cardinality(Range(last.m.tags))

\* C8: no two tags share a name, and renameTag onto the name of another tag
\* fails without changing any tag or link.
C8_TagNamesUnique ==
  /\ \A t1 \in tags : \A t2 \in tags : t1.name = t2.name => t1 = t2
  /\ (last.op = "renameTag" /\ last.oldName # last.newName
        /\ HasTag(last.pre, last.oldName) /\ HasTag(last.pre, last.newName)) =>
       ~last.ok /\ DB = last.pre

\* a rename onto an existing name while both tags carry links
C8_Witness ==
  /\ last.op = "renameTag"
  /\ last.oldName # last.newName
  /\ CountLinks(last.pre, last.oldName) > 0
  /\ CountLinks(last.pre, last.newName) > 0

\* C9: with a non-empty tags list, getRandomImage only returns an image that
\* carries every listed tag.
C9_RandomImageHasEveryTag ==
  (last.op = "getRandomImage" /\ Len(last.filters.tags) > 0 /\ last.result # Null) =>
    /\ Range(last.filters.tags) \subseteq last.result.tags
    /\ \A name \in Range(last.filters.tags) : Linked(DB, last.result.id, name)

\* two tags asked for, one image returned, another image carries just one of them
C9_Witness ==
  /\ last.op = "getRandomImage"
  /\ Cardinality(Range(last.filters.tags)) = 2
  /\ last.result # Null
  /\ \E id \in ImageIds :
       /\ TagNamesOf(DB, id) # {}
       /\ Range(last.filters.tags) \ TagNamesOf(DB, id) # {}

\* C10: getRandomImage never returns an image carrying a tag of the exclude
\* list, and with an orientation filter only images of that orientation.
C10_RandomImageExcludeAndOrientation ==
  (last.op = "getRandomImage" /\ last.result # Null) =>
    /\ Len(last.filters.exclude) > 0 =>
         /\ last.result.tags \cap Range(last.filters.exclude) = {}
         /\ \A name \in Range(last.filters.exclude) : ~Linked(DB, last.result.id, name)
    /\ ~Falsy(last.filters.orientation) =>
         last.result.orientation = last.filters.orientation

\* tags, exclude and orientation given together; an image that has the tags
\* and the orientation but also an excluded tag exists and is not the result
C10_Witness ==
  /\ last.op = "getRandomImage"
  /\ Len(last.filters.tags) > 0
  /\ Len(last.filters.exclude) > 0
  /\ ~Falsy(last.filters.orientation)
  /\ last.result # Null
  /\ \E r \in images :
       /\ r.orientation = last.filters.orientation
       /\ Range(last.filters.tags) \subseteq TagNamesOf(DB, r.id)
       /\ TagNamesOf(DB, r.id) \cap Range(last.filters.exclude) # {}

\* C11: getRandomImage returns not-found exactly when no image satisfies all
\* the filters, and every qualifying image is a possible result, for every
\* tags list, also one that names a tag twice.
C11_RandomImageFoundIffQualifying ==
  /\ \A f \in FilterInputs : RandomCandidates(DB, f) = Qualifying(DB, f)
  /\ last.op = "getRandomImage" =>
       (last.result = Null <=> Qualifying(DB, last.filters) = {})

\* the images that carry the tag (when given) and have the orientation (when given)
Listed(d, filters) ==
  {i \in d.images :
     /\ ~Falsy(filters.tag) => Linked(d, i.id, filters.tag)
     /\ ~Falsy(filters.orientation) => i.orientation = filters.orientation}

IdsOf(recSeq) == {recSeq[k].id : k \in 1..Len(recSeq)}

\* C12: getImages returns as total the number of distinct images satisfying
\* the tag and orientation predicate, whatever page and limit are, and every
\* record of the page satisfies the predicate.
C12_ListTotalMatchesPredicate ==
  last.op = "getImages" =>
    /\ last.result.total = Cardinality({i.id : i \in Listed(DB, last.filters)})
    /\ \A f \in ListInputs :
         (f.tag = last.filters.tag /\ f.orientation = last.filters.orientation) =>
           getImages(DB, f).total = last.result.total
    /\ IdsOf(last.result.images) \subseteq {i.id : i \in Listed(DB, last.filters)}
    /\ \A k \in 1..Len(last.result.images) :
         last.result.images[k] = getImage(DB, last.result.images[k].id)

\* tag and orientation both given; an image with the tag and the other
\* orientation exists and is left out
C12_Witness ==
  /\ last.op = "getImages"
  /\ ~Falsy(last.filters.tag)
  /\ ~Falsy(last.filters.orientation)
  /\ last.result.total = 1
  /\ Len(last.result.images) = 1
  /\ \E i \in images : /\ Linked(DB, i.id, last.filters.tag)
                       /\ i.orientation # last.filters.orientation

\* C13: with no write in between, page 1 and page 2 of getImages with the same
\* limit and filters hold disjoint, duplicate-free sets of IDs in descending
\* upload time, and when total <= 2 * limit their union is every matching image.
C13_PagesPartition ==
  (last.op = "getImages" /\ last.filters.page = 1) =>
    LET p1 == last.result.images
        p2 == getImages(DB, [last.filters EXCEPT !.page = 2]).images
        both == p1 \o p2
    IN /\ IdsOf(p1) \cap IdsOf(p2) = {}
       /\ Cardinality(IdsOf(p1)) = Len(p1)
       /\ Cardinality(IdsOf(p2)) = Len(p2)
       /\ \A j \in 1..Len(both) : \A k \in j..Len(both) :
            TimeRank(both[j].uploadTime) >= TimeRank(both[k].uploadTime)
       /\ last.result.total <= 2 * last.filters.limit =>
            IdsOf(both) = {i.id : i \in Listed(DB, last.filters)}

\* two matching images split over the two pages
C13_Witness ==
  /\ last.op = "getImages"
  /\ last.filters.page = 1
  /\ last.filters.limit = 1
  /\ last.result.total = 2
  /\ Len(getImages(DB, [last.filters EXCEPT !.page = 2]).images) = 1

AllListedExist(d, idList) == \A id \in Range(idList) : HasImage(d, id)

\* C14 as stated: a tag named in both addTags and removeTags ends up linked to
\* every listed image that exists, whether or not it carried the tag before.
C14_AddWinsForExistingImages ==
  last.op = "batchUpdateTags" =>
    \A name \in Range(last.addTags) \cap Range(last.removeTags) :
      \A id \in Range(last.imageIds) :
        HasImage(last.pre, id) => Linked(DB, id, name)

\* C14, amended: when every listed image exists the call succeeds and a tag
\* named in both lists ends up linked to every listed image; when a listed
\* image is missing and addTags is not empty the call fails and changes nothing.
C14_AddWinsWhenAllExist ==
  last.op = "batchUpdateTags" =>
    IF AllListedExist(last.pre, last.imageIds)
    THEN /\ last.ok
         /\ \A name \in Range(last.addTags) \cap Range(last.removeTags) :
              \A id \in Range(last.imageIds) : Linked(DB, id, name)
    ELSE Len(last.addTags) > 0 => (~last.ok /\ DB = last.pre)

\* a tag in both lists, two listed images, one carried the tag and one did not
C14_Witness ==
  /\ last.op = "batchUpdateTags"
  /\ AllListedExist(last.pre, last.imageIds)
  /\ \E name \in Range(last.addTags) \cap Range(last.removeTags) :
       /\ \E id \in Range(last.imageIds) : Linked(last.pre, id, name)
       /\ \E id \in Range(last.imageIds) : ~Linked(last.pre, id, name)

\* C15: batchUpdateTags applies the tag creations, removals and additions for
\* all listed images, or, when a statement fails, nothing at all; on success it
\* returns the number of image IDs given.
C15_BatchUpdateAllOrNothing ==
  last.op = "batchUpdateTags" =>
    IF last.ok
    THEN /\ \A name \in Range(last.addTags) : HasTag(DB, name)
         /\ \A id \in Range(last.imageIds) :
              /\ \A name \in Range(last.addTags) : Linked(DB, id, name)
              /\ \A name \in Range(last.removeTags) \ Range(last.addTags) :
                   ~Linked(DB, id, name)
         /\ last.result = Len(last.imageIds)
    ELSE DB = last.pre

\* the batch failed on the second listed image after it had created a tag and
\* changed the first image
C15_Witness ==
  /\ last.op = "batchUpdateTags"
  /\ ~last.ok
  /\ Len(last.imageIds) = 2
  /\ HasImage(last.pre, last.imageIds[1])
  /\ ~HasImage(last.pre, last.imageIds[2])
  /\ \E name \in Range(last.addTags) : ~HasTag(last.pre, name)
  /\ \E name \in Range(last.removeTags) : Linked(last.pre, last.imageIds[1], name)

TagIdsNamed(d, name) == {t.id : t \in {u \in d.tags : u.name = name}}
ImagesWithTag(d, name) == {id \in ImageIds : Linked(d, id, name)}
Renamed(names, oldName, newName) ==
  {IF n = oldName THEN newName ELSE n : n \in names}

\* C16: renameTag(oldName, newName) with newName unused changes only the name
\* of the tag: images and links are untouched, every image linked to the tag
\* now shows newName instead of oldName, other tags are unchanged, and the
\* number returned is the number of images linked to the tag.
C16_RenameKeepsLinks ==
  (last.op = "renameTag" /\ last.oldName # last.newName
     /\ HasTag(last.pre, last.oldName) /\ ~HasTag(last.pre, last.newName)) =>
    /\ last.ok
    /\ images = last.pre.images
    /\ image_tags = last.pre.image_tags
    /\ tags = {IF t.name = last.oldName THEN [t EXCEPT !.name = last.newName] ELSE t :
                 t \in last.pre.tags}
    /\ ImagesWithTag(DB, last.newName) = ImagesWithTag(last.pre, last.oldName)
    /\ \A id \in ImageIds :
         TagNamesOf(DB, id) = Renamed(TagNamesOf(last.pre, id), last.oldName, last.newName)
    /\ last.result = Cardinality(ImagesWithTag(last.pre, last.oldName))

\* the renamed tag is linked to one image while another tag is linked to two
C16_Witness ==
  /\ last.op = "renameTag"
  /\ last.ok
  /\ last.oldName # last.newName
  /\ ~HasTag(last.pre, last.newName)
  /\ last.result = 1
  /\ HasTag(DB, last.newName)
  /\ \E t \in tags : t.name # last.newName /\ CountLinks(DB, t.name) = 2

\* C17: deleteTag(name) removes the tag and every link to it and nothing else,
\* and returns the number of links the tag had; for a name that is not a tag
\* it returns 0 and changes nothing.
C17_DeleteTagRemovesItsLinks ==
  last.op = "deleteTag" =>
    IF HasTag(last.pre, last.name)
    THEN /\ last.ok
         /\ images = last.pre.images
         /\ tags = {t \in last.pre.tags : t.name # last.name}
         /\ image_tags = {r \in last.pre.image_tags :
                            r.tag_id \notin TagIdsNamed(last.pre, last.name)}
         /\ last.result = Cardinality({r \in last.pre.image_tags :
                                         r.tag_id \in TagIdsNamed(last.pre, last.name)})
    ELSE DB = last.pre /\ last.result = 0

\* a tag linked to two images is deleted while another tag keeps a link
C17_Witness ==
  /\ last.op = "deleteTag"
  /\ last.result = 2
  /\ image_tags # {}


UniqueTagNames(d) == \A t1 \in d.tags : \A t2 \in d.tags : t1.name = t2.name => t1 = t2

AdminDone == procs[TagAdmin].pc = "done"

\* C18: renameTag and deleteTag return the count as it was read in the request
\* before their write, whatever the writers scheduled in between did to the
\* tag's links (see C18_Witness for a count that differs from the links at the
\* write), and in every interleaving tag names stay unique and no association
\* dangles.
C18_CountReadBeforeWrite ==
  /\ UniqueTagNames(DB)
  /\ NoDangling(DB)
  /\ AdminDone => procs[TagAdmin].result = Cardinality(procs[TagAdmin].seen)

\* a successful call returned 0 for a tag that had a link when the write ran,
\* or 1 for a tag that had none
C18_Witness ==
  /\ AdminDone
  /\ procs[TagAdmin].ok
  /\ procs[TagAdmin].result # procs[TagAdmin].atWrite
  /\ procs[TagAdmin].name # procs[TagAdmin].newName
       => ~HasTag(DB, procs[TagAdmin].name)

TagListing(d, name) == {k \in 1..Len(getAllTags(d)) : getAllTags(d)[k].name = name}

RemovesLinks == {"updateImage", "batchUpdateTags", "deleteImage"}

\* C19: no call other than deleteTag removes a tag; after updateImage,
\* batchUpdateTags or deleteImage every tag is still there under its name, and
\* getAllTags lists every existing tag exactly once with the number of its
\* links, 0 included, and lists nothing else.
C19_TagsStayUntilDeleted ==
  /\ last.op \notin {"idle", "deleteTag"} =>
       \A t \in last.pre.tags : \E u \in tags : u.id = t.id
  /\ last.op \in RemovesLinks => last.pre.tags \subseteq tags
  /\ \A t \in tags :
       /\ Cardinality(TagListing(DB, t.name)) = 1
       /\ \A k \in TagListing(DB, t.name) :
            getAllTags(DB)[k].count = CountLinks(DB, t.name)
  /\ Len(getAllTags(DB)) = Cardinality(tags)
  /\ last.op = "getAllTags" => last.result = getAllTags(DB)

\* updateImage removed the last link of a tag, which getAllTags lists with 0
C19_Witness ==
  /\ last.op = "updateImage"
  /\ last.ok
  /\ \E t \in tags :
       /\ CountLinks(last.pre, t.name) = 1
       /\ CountLinks(DB, t.name) = 0
       /\ [name |-> t.name, count |-> 0] \in Range(getAllTags(DB))

\* the update names nothing that differs from the stored record
OnlyUnchanged(image, updates) ==
  /\ updates.hasTags => Range(updates.tags) = image.tags
  /\ updates.expiryTime # UNDEF => updates.expiryTime = image.expiryTime

\* C20: updateImage called with a tag set equal to the image's tag set and/or
\* an expiryTime equal to the image's expiryTime puts no statement in its
\* batch and returns the record as it was.
C20_NoWriteWhenUnchanged ==
  (last.op = "updateImage" /\ getImage(last.pre, last.id) # Null
     /\ OnlyUnchanged(getImage(last.pre, last.id), last.updates)) =>
    /\ last.writes = 0
    /\ last.result = getImage(last.pre, last.id)

\* the columns of an image row other than expiry_time
Immutable(row) == [row EXCEPT !.expiry_time = NULL]

FrameOps == {"updateImage", "batchUpdateTags", "renameTag", "deleteTag", "createTag"}

\* C21: updateImage, batchUpdateTags, renameTag, deleteTag and createTag leave
\* every column of every image row but expiry_time as it was, also when the
\* update carries orientation or uploadTime; only updateImage changes
\* expiry_time, and only of the image it names; it leaves the tags of other
\* images alone, and without a tags field it leaves every tag set alone.
C21_ImmutableFields ==
  /\ last.op \in FrameOps =>
       {Immutable(r) : r \in images} = {Immutable(r) : r \in last.pre.images}
  /\ last.op \in FrameOps \ {"updateImage"} => images = last.pre.images
  /\ last.op = "updateImage" =>
       \A r \in images : r.id # last.id =>
         r \in last.pre.images /\ TagNamesOf(DB, r.id) = TagNamesOf(last.pre, r.id)
  /\ (last.op = "updateImage" /\ ~last.updates.hasTags) =>
       image_tags = last.pre.image_tags /\ tags = last.pre.tags

\* an update carrying another orientation, an upload time and a new expiry
\* time, and no tags, on an image that has a tag
C21_Witness ==
  /\ last.op = "updateImage"
  /\ last.ok
  /\ ~last.updates.hasTags
  /\ \E r \in last.pre.images :
       /\ r.id = last.id
       /\ r.orientation # last.updates.orientation
       /\ r.upload_time # last.updates.uploadTime
       /\ r.expiry_time # last.updates.expiryTime
       /\ last.updates.expiryTime # UNDEF
  /\ TagNamesOf(DB, last.id) # {}
  /\ last.result.expiryTime = last.updates.expiryTime

\* C22: updateImage on an id without a record returns null without failing
\* and without handing any statement to the database, so the tables are as
\* they were and no tag named in the update exists that did not exist before.
C22_UpdateMissingImage ==
  (last.op = "updateImage" /\ ~HasImage(last.pre, last.id)) =>
    /\ last.ok
    /\ last.result = Null
    /\ last.writes = 0
    /\ DB = last.pre

\* the update of a missing id names an unknown tag and an expiry time, while
\* another image is stored
C22_Witness ==
  /\ last.op = "updateImage"
  /\ ~HasImage(last.pre, last.id)
  /\ last.pre.images # {}
  /\ last.updates.hasTags
  /\ \E name \in Range(last.updates.tags) : ~HasTag(last.pre, name)
  /\ last.updates.expiryTime # UNDEF
  /\ last.result = Null

\* C23: deleteImage returns true exactly when a row with the id was stored;
\* the row is then gone while the other rows stay, getImage finds nothing and
\* a further deleteImage of the id returns false; a false result comes with
\* unchanged tables.
C23_DeleteImageResult ==
  last.op = "deleteImage" =>
    /\ last.result = HasImage(last.pre, last.id)
    /\ images = {r \in last.pre.images : r.id # last.id}
    /\ getImage(DB, last.id) = Null
    /\ ~deleteImageResult(deleteImage(DB, last.id))
    /\ ~last.result => DB = last.pre

\* one of two stored images was deleted; the other one keeps its tags
C23_Witness ==
  /\ last.op = "deleteImage"
  /\ last.result
  /\ \E id \in ImageIds :
       id # last.id /\ HasImage(DB, id) /\ TagNamesOf(DB, id) # {}

\* the rows of the three tables
Tables(d) == [images |-> d.images, tags |-> d.tags, image_tags |-> d.image_tags]

\* C24: createTag never fails; for a name that exists it leaves every row as
\* it was, so the tag keeps its id and its links; afterwards exactly one tag
\* has the name, and a further createTag of the name changes no row.
C24_CreateTagIdempotent ==
  last.op = "createTag" =>
    /\ last.ok
    /\ HasTag(last.pre, last.name) => Tables(DB) = Tables(last.pre)
    /\ Cardinality(TagIdsNamed(DB, last.name)) = 1
    /\ last.pre.tags \subseteq tags
    /\ image_tags = last.pre.image_tags /\ images = last.pre.images
    /\ createTag(DB, last.name).ok
    /\ Tables(createTag(DB, last.name).db) = Tables(DB)

\* createTag of a name whose tag is linked to an image
C24_Witness ==
  /\ last.op = "createTag"
  /\ HasTag(last.pre, last.name)
  /\ CountLinks(last.pre, last.name) > 0
  /\ CountLinks(DB, last.name) > 0

\* the ids of the stored images whose expiry time lies before now
DueIds(d, now) ==
  {r.id : r \in {i \in d.images : /\ i.expiry_time \in Range(Instants)
                                   /\ \E k \in 1..Len(Instants) :
                                        /\ Instants[k] = now
                                        /\ \E j \in 1..(k - 1) :
                                             Instants[j] = i.expiry_time}}

\* C25: getExpiredImages returns, once each, the images whose expiry time is
\* set and strictly before now, each as getImage returns it, and writes
\* nothing: the expired images are still stored.
C25_ExpiredImages ==
  last.op = "getExpiredImages" =>
    /\ IdsOf(last.result) = DueIds(last.pre, last.now)
    /\ Len(last.result) = Cardinality(DueIds(last.pre, last.now))
    /\ \A k \in 1..Len(last.result) :
         last.result[k] = getImage(last.pre, last.result[k].id)
    /\ DB = last.pre

\* an expired image comes back with its tags while an image without expiry
\* time is left out
C25_Witness ==
  /\ last.op = "getExpiredImages"
  /\ Len(last.result) = 1
  /\ last.result[1].tags # {}
  /\ HasImage(DB, last.result[1].id)
  /\ \E r \in images : r.expiry_time = NULL

Handlers == {"uploadSingle", "upload"}

Stored(id, slot, data) == [id |-> id, slot |-> slot, data |-> data] \in bucket

\* the slots the record of a file refers to
SlotsOf(file) == IF file.b.format = "gif" THEN {"original"} ELSE {"original", "webp", "avif"}

\* C26: in both handlers, once the record of a file is saved, a failing cache
\* invalidation leaves the response a success and the record stored.
C26_InvalidationNotPartOfOutcome ==
  (last.op \in Handlers /\ last.req.cacheFails
     /\ \E k \in 1..Len(last.outcomes) : last.outcomes[k].saved) =>
    /\ last.response = "success"
    /\ \A k \in 1..Len(last.outcomes) :
         last.outcomes[k].saved => HasImage(DB, last.ids[k])

\* C28: in both handlers a record is saved only when every slot it refers to
\* holds an uploaded object, and a file for which a storage upload failed has
\* no record saved and an error result.
C28_SavedOnlyAfterUploads ==
  last.op \in Handlers =>
    \A k \in 1..Len(last.outcomes) :
      /\ last.outcomes[k].saved =>
           \A slot \in SlotsOf(last.files[k]) :
             \E o \in bucket : o.id = last.ids[k] /\ o.slot = slot
      /\ last.outcomes[k].failed =>
           ~last.outcomes[k].saved /\ last.outcomes[k].status = "error"

\* the compression service is configured and fails for an acceptable still
\* image while every storage upload succeeds
CompressionFailed(k) ==
  /\ last.req.bound
  /\ last.files[k].b.format # "gif"
  /\ last.files[k].supported
  /\ last.files[k].size <= MAX_FILE_SIZE
  /\ last.envs[k].comp = "throws"
  /\ last.envs[k].fails = {}

\* C29: when compression fails for a non-GIF image, both handlers store the
\* original bytes at the webp and avif paths, record the file size as webp
\* and avif size, save the record and report success for the file.
C29_CompressionFallback ==
  last.op \in Handlers =>
    \A k \in 1..Len(last.outcomes) : CompressionFailed(k) =>
      /\ Stored(last.ids[k], "webp", "orig")
      /\ Stored(last.ids[k], "avif", "orig")
      /\ last.outcomes[k].status = "success"
      /\ last.outcomes[k].saved
      /\ \E r \in images : /\ r.id = last.ids[k]
                           /\ r.size_webp = last.files[k].size
                           /\ r.size_avif = last.files[k].size

ReaderDone == procs[Reader].pc = "done"

\* C27: with writers scheduled between the selection query of getRandomImage
\* and its getImage, the record returned still carries every requested tag
\* and no excluded tag, and not-found is not returned while an image that
\* satisfies the filters is stored.
C27_RandomImageUnderWrites ==
  ReaderDone =>
    /\ procs[Reader].result # Null =>
         /\ Range(procs[Reader].filters.tags) \subseteq procs[Reader].result.tags
         /\ procs[Reader].result.tags \cap Range(procs[Reader].filters.exclude) = {}
    /\ procs[Reader].result = Null => ~procs[Reader].left
====
